---- MODULE Spec2Model ----
(***************************************************************************)
(* Verification model of the workflow graph of the order-management         *)
(* assistant: graph.py (handlers, routers, GraphBuilder, build_graph) and   *)
(* server.py (chat_endpoint, the checkpointed turn).  The executable graph  *)
(* is a LangGraph StateGraph; the parts of its behaviour the source relies  *)
(* on (add_node, add_edge, add_conditional_edges, compile, ainvoke,         *)
(* get_state) are modelled at the places the source calls them.             *)
(***************************************************************************)
EXTENDS Integers, Sequences, FiniteSets, TLC

\* Python's None
None == "None"

\* langgraph.graph START / END (graph.py:9); the definition files write "END"
START == "__start__"
END == "__end__"

(***************************************************************************)
(* GraphBuilder: the registry                                               *)
(***************************************************************************)

\* GraphBuilder.ROUTER_NODES (graph.py:897)
ROUTER_NODES == {"WorkflowRouter", "FastenerSearchRouter", "RouterTask1"}

\* the task handlers of WorkflowTasks registered in _build_node_mapping
TaskNodes ==
  {"UserTask1", "UserTask2", "LLMTask", "ToolTask", "AgentTask", "RetrieverTask",
   "HumanReviewTask", "RenderTaskChat", "RenderTaskEmail",
   "FastenerIntentClassifier", "FastenerSearch", "ErrorHandler", "DisplayItemsTable"}

\* the routing functions of WorkflowRouters registered in _build_node_mapping
RouterFunctions ==
  {"router", "should_render_router", "needs_review_router", "workflow_router",
   "fastener_search_router", "llm_task_router", "router_task1_router"}

\* GraphBuilder._build_node_mapping: registered name -> function (None for the
\* router pseudo-nodes; "router" is an alias of should_render_router)
node_mapping ==
  [k \in TaskNodes \cup ROUTER_NODES \cup RouterFunctions |->
     IF k \in ROUTER_NODES THEN None
     ELSE IF k = "router" THEN "should_render_router"
     ELSE k]

(***************************************************************************)
(* The graph under construction (langgraph StateGraph)                      *)
(***************************************************************************)

\* StateGraph(GraphState): no node, no edge, no branch, no error raised yet
EmptyGraph == [err |-> None, nodes |-> {}, edges |-> {}, branches |-> {}]

NodeNames(g) == {n.name : n \in g.nodes}

\* an exception raised while building: the build stops with it
Raise(g, e) == [g EXCEPT !.err = e]

\* an add_node that would take a second node of a name it already has
graph_add_node_lenient(g, name, fn) ==
  [g EXCEPT !.nodes = @ \cup {[name |-> name, fn |-> fn]}]

\* StateGraph.add_node: a second node of the same name is rejected
graph_add_node(g, name, fn) ==
  IF name \in NodeNames(g) THEN Raise(g, "ValueError: Node already present")
  ELSE [g EXCEPT !.nodes = @ \cup {[name |-> name, fn |-> fn]}]

\* StateGraph.add_edge: recorded; the end points are checked by compile
graph_add_edge(g, from, to) ==
  IF from = END THEN Raise(g, "ValueError: END cannot be a start node")
  ELSE IF to = START THEN Raise(g, "ValueError: START cannot be an end node")
  ELSE [g EXCEPT !.edges = @ \cup {<<from, to>>}]

\* StateGraph.add_conditional_edges: one branch per (source, routing function)
graph_add_conditional_edges(g, from, router, routes) ==
  IF \E b \in g.branches : b.from = from /\ b.router = router
  THEN Raise(g, "ValueError: Branch already exists for node")
  ELSE [g EXCEPT !.branches = @ \cup {[from |-> from, router |-> router, routes |-> routes]}]

\* a compile that validates nothing
graph_compile_unchecked(g) ==
  g

\* StateGraph.compile -> validate: every edge and branch starts at a node, there
\* is an entry point, every edge and route target is a node or END
graph_compile(g) ==
  LET sources == {e[1] : e \in g.edges} \cup {b.from : b \in g.branches}
      targets == {e[2] : e \in g.edges}
                   \cup UNION {{b.routes[k] : k \in DOMAIN b.routes} : b \in g.branches}
  IN IF g.err # None THEN g
     ELSE IF \E s \in sources : s # START /\ s \notin NodeNames(g)
       THEN Raise(g, "ValueError: Found edge starting at unknown node")
     ELSE IF START \notin sources
       THEN Raise(g, "ValueError: Graph must have an entrypoint")
     ELSE IF \E t \in targets : t # END /\ t \notin NodeNames(g)
       THEN Raise(g, "ValueError: Found edge ending at unknown node")
     ELSE g

(***************************************************************************)
(* GraphBuilder.build_from_json: the generic shape                          *)
(* config = [entry_point, nodes, edges, conditional_edges]                  *)
(***************************************************************************)

RECURSIVE RouterMappingFrom(_, _, _)
RouterMappingFrom(edges, i, mapping) ==
  IF i > Len(edges) THEN mapping
  ELSE LET from_node == edges[i][1]
           to_node == edges[i][2]
       IN RouterMappingFrom(edges, i + 1,
            IF to_node \in ROUTER_NODES
            THEN [r \in ROUTER_NODES |-> IF r = to_node THEN from_node ELSE mapping[r]]
            ELSE mapping)

\* GraphBuilder._build_router_mapping: router pseudo-node -> the node of the last
\* edge that feeds it (None: not in the mapping)
build_router_mapping(config) ==
  RouterMappingFrom(config.edges, 1, [r \in ROUTER_NODES |-> None])

RECURSIVE AddNodesFrom(_, _, _)
AddNodesFrom(nodes, i, g) ==
  IF g.err # None \/ i > Len(nodes) THEN g
  ELSE LET node_name == nodes[i]
       IN IF node_name \in ROUTER_NODES THEN AddNodesFrom(nodes, i + 1, g)
          ELSE IF node_name \notin DOMAIN node_mapping
            THEN Raise(g, "ValueError: Node function not found")
          ELSE IF node_mapping[node_name] = None
            THEN Raise(g, "ValueError: Node function is None")
          ELSE AddNodesFrom(nodes, i + 1,
                            graph_add_node(g, node_name, node_mapping[node_name]))

\* GraphBuilder._add_nodes
add_nodes(g, config) == AddNodesFrom(config.nodes, 1, g)

\* GraphBuilder._set_entry_point ("" stands for a missing entry_point)
set_entry_point(g, config) ==
  IF g.err # None THEN g
  ELSE IF config.entry_point = "" THEN Raise(g, "ValueError: Workflow JSON missing entry_point")
  ELSE graph_add_edge(g, START, config.entry_point)

RECURSIVE AddEdgesFrom(_, _, _, _)
AddEdgesFrom(edges, conditional_nodes, i, g) ==
  IF g.err # None \/ i > Len(edges) THEN g
  ELSE LET from_node == edges[i][1]
           to_node == edges[i][2]
       IN IF from_node \in ROUTER_NODES \/ to_node \in ROUTER_NODES
            THEN AddEdgesFrom(edges, conditional_nodes, i + 1, g)
          ELSE IF from_node \in conditional_nodes
            THEN AddEdgesFrom(edges, conditional_nodes, i + 1, g)
          ELSE AddEdgesFrom(edges, conditional_nodes, i + 1,
                 graph_add_edge(g, from_node, IF to_node = "END" THEN END ELSE to_node))

\* GraphBuilder._add_edges
add_edges(g, config) ==
  AddEdgesFrom(config.edges,
               {config.conditional_edges[i].from : i \in DOMAIN config.conditional_edges},
               1, g)

RECURSIVE AddCondFrom(_, _, _, _)
AddCondFrom(conds, router_mapping, i, g) ==
  IF g.err # None \/ i > Len(conds) THEN g
  ELSE LET declared == conds[i].from
           from_node == IF declared \in ROUTER_NODES /\ router_mapping[declared] # None
                        THEN router_mapping[declared] ELSE declared
           router_func_name == conds[i].router_function
       IN IF router_func_name \notin DOMAIN node_mapping
            THEN Raise(g, "ValueError: Router function not found")
          ELSE IF node_mapping[router_func_name] = None
            THEN Raise(g, "ValueError: Router function is None")
          ELSE AddCondFrom(conds, router_mapping, i + 1,
                 graph_add_conditional_edges(g, from_node,
                     node_mapping[router_func_name], conds[i].routes))

\* GraphBuilder._add_conditional_edges
add_conditional_edges(g, config, router_mapping) ==
  AddCondFrom(config.conditional_edges, router_mapping, 1, g)

\* GraphBuilder.build_from_json
build_from_json(config) ==
  LET router_mapping == build_router_mapping(config)
      g1 == add_nodes(EmptyGraph, config)
      g2 == set_entry_point(g1, config)
      g3 == add_edges(g2, config)
      g4 == add_conditional_edges(g3, config, router_mapping)
  IN graph_compile(g4)

(***************************************************************************)
(* GraphBuilder.build_from_copilot_json: the activity/connection shape      *)
(* config = [activities: Seq([Id, Name, Type]), connections: Seq(<<source,  *)
(* target>>), start: StartActivityId ("" when absent)]                      *)
(***************************************************************************)

\* re.sub(r'\d+$', '', activity_name) on the activity names the model declares
StripTrailingDigits(name) ==
  CASE name \in {"LLMTask1", "LLMTask2"} -> "LLMTask"
    [] name = "ToolTask1" -> "ToolTask"
    [] name = "AgentTask1" -> "AgentTask"
    [] name = "RetrievalTask1" -> "RetrievalTask"
    [] name = "RenderTask1" -> "RenderTask"
    [] name \in {"RouterTask1", "RouterTask2"} -> "RouterTask"
    [] name \in {"UserTask1", "UserTask2"} -> "UserTask"
    [] name = "HumanReviewTask1" -> "HumanReviewTask"
    [] name = "Foo1" -> "Foo"
    [] OTHER -> name

\* activity_name.startswith("UserTask")
StartsWithUserTask(name) == name \in {"UserTask1", "UserTask2", "UserTask"}

\* "RenderTask" in target_name or "Render" in target_name
ContainsRender(name) == name \in {"RenderTask1", "RenderTask", "RenderTaskChat", "RenderTaskEmail"}

\* "Agent" in target_name
ContainsAgent(name) == name \in {"AgentTask1", "AgentTask"}

\* GraphBuilder._normalize_node_name
normalize_node_name(activity_name) ==
  LET normalized == StripTrailingDigits(activity_name)
  IN CASE normalized = "LLMTask" -> "LLMTask"
       [] normalized = "ToolTask" -> "ToolTask"
       [] normalized = "AgentTask" -> "AgentTask"
       [] normalized \in {"RetrievalTask", "RetrieverTask"} -> "RetrieverTask"
       [] normalized = "RenderTask" -> "RenderTaskChat"
       [] normalized = "RouterTask" -> "RouterTask1"
       [] OTHER -> IF StartsWithUserTask(activity_name) THEN activity_name
                   ELSE IF normalized \in DOMAIN node_mapping THEN normalized
                   ELSE activity_name

\* the activities that are not the Start marker, in declaration order
NonStart(activities) == SelectSeq(activities, LAMBDA a : a.Type # "Start")

\* id_to_name.get(id): the Name of the last non-Start activity with that Id
IdToName(activities, id) ==
  LET idx == {i \in DOMAIN activities : activities[i].Type # "Start" /\ activities[i].Id = id}
  IN IF idx = {} THEN None
     ELSE activities[CHOOSE i \in idx : \A j \in idx : j <= i].Name

\* name_to_node_func: the activity names that resolve to a task handler
NameToNodeFunc(activities) ==
  {[name |-> activities[i].Name, fn |-> node_mapping[normalize_node_name(activities[i].Name)]] :
     i \in {j \in DOMAIN activities :
              /\ activities[j].Type # "Start"
              /\ normalize_node_name(activities[j].Name) \in DOMAIN node_mapping
              /\ node_mapping[normalize_node_name(activities[j].Name)] # None}}

\* graph.add_node for every item of name_to_node_func (a dict: one per name)
AddCopilotNodes(g, activities) ==
  [g EXCEPT !.nodes = NameToNodeFunc(activities)]

\* the entry point: the target of the first connection leaving the Start activity,
\* else the first non-Start activity (None when there is none)
CopilotEntryPoint(config) ==
  LET fromStart == {i \in DOMAIN config.connections : config.connections[i][1] = config.start}
      first == CHOOSE i \in fromStart : \A j \in fromStart : i <= j
      byConn == IF config.start # "" /\ fromStart # {}
                THEN IdToName(config.activities, config.connections[first][2])
                ELSE None
      rest == NonStart(config.activities)
  IN IF byConn # None /\ byConn # "" THEN byConn
     ELSE IF Len(rest) > 0 THEN rest[1].Name
     ELSE None

\* dict[key].append(value) on an insertion-ordered dict kept as Seq([key, vals])
AppendTo(m, key, value) ==
  IF \E i \in DOMAIN m : m[i].key = key
  THEN [i \in DOMAIN m |-> IF m[i].key = key
                           THEN [m[i] EXCEPT !.vals = Append(@, value)] ELSE m[i]]
  ELSE Append(m, [key |-> key, vals |-> <<value>>])

\* dict[key] = value on an insertion-ordered dict kept as Seq([key, val])
Assign(m, key, value) ==
  IF \E i \in DOMAIN m : m[i].key = key
  THEN [i \in DOMAIN m |-> IF m[i].key = key THEN [m[i] EXCEPT !.val = value] ELSE m[i]]
  ELSE Append(m, [key |-> key, val |-> value])

Lookup(m, key) ==
  IF \E i \in DOMAIN m : m[i].key = key
  THEN m[CHOOSE i \in DOMAIN m : m[i].key = key].val
  ELSE None

RECURSIVE ClassifyConnections(_, _, _)
\* the loop over connections of build_from_copilot_json: connection_map,
\* router_connections and router_sources
ClassifyConnections(config, i, acc) ==
  IF i > Len(config.connections) THEN acc
  ELSE LET source_id == config.connections[i][1]
           target_id == config.connections[i][2]
           source_name == IdToName(config.activities, source_id)
           target_name == IdToName(config.activities, target_id)
       IN IF source_id = config.start THEN ClassifyConnections(config, i + 1, acc)
          ELSE IF source_name \in {None, ""} \/ target_name \in {None, ""}
            THEN ClassifyConnections(config, i + 1, acc)
          ELSE IF normalize_node_name(source_name) \in ROUTER_NODES
            THEN ClassifyConnections(config, i + 1,
                   [acc EXCEPT !.router_connections = AppendTo(@, source_name, target_name)])
          ELSE IF normalize_node_name(target_name) \in ROUTER_NODES
            THEN ClassifyConnections(config, i + 1,
                   [acc EXCEPT !.router_sources = Assign(@, target_name, source_name)])
          ELSE ClassifyConnections(config, i + 1,
                   [acc EXCEPT !.connection_map = AppendTo(@, source_name, target_name)])

RECURSIVE RouterTask1Routes(_, _, _)
\* the routes of a RouterTask1 pseudo-activity: one key per target, the key
\* RenderTaskChat / AgentTask for a render / agent target, else the target name
RouterTask1Routes(target_names, i, routes) ==
  IF i > Len(target_names) THEN routes
  ELSE LET target_name == target_names[i]
           key == IF ContainsRender(target_name) THEN "RenderTaskChat"
                  ELSE IF ContainsAgent(target_name) THEN "AgentTask"
                  ELSE target_name
       IN RouterTask1Routes(target_names, i + 1,
            [k \in DOMAIN routes \cup {key} |-> IF k = key THEN target_name ELSE routes[k]])

RECURSIVE AddRouterEdges(_, _, _, _)
\* "Handle router nodes": a conditional edge (RouterTask1) or a direct edge to
\* the first target (the other router types) from the node that feeds the router
AddRouterEdges(router_connections, router_sources, i, g) ==
  IF g.err # None \/ i > Len(router_connections) THEN g
  ELSE LET router_name == router_connections[i].key
           target_names == router_connections[i].vals
           source_node == Lookup(router_sources, router_name)
           first == IF target_names[1] = "END" THEN END ELSE target_names[1]
       IN IF source_node = None
            THEN AddRouterEdges(router_connections, router_sources, i + 1, g)
          ELSE IF normalize_node_name(router_name) = "RouterTask1"
            THEN AddRouterEdges(router_connections, router_sources, i + 1,
                   graph_add_conditional_edges(g, source_node,
                       node_mapping["router_task1_router"],
                       RouterTask1Routes(target_names, 1, <<>>)))
          ELSE AddRouterEdges(router_connections, router_sources, i + 1,
                   graph_add_edge(g, source_node, first))

RECURSIVE AddRegularEdges(_, _, _)
\* "Add regular edges": each source gets one edge, to its first target
AddRegularEdges(connection_map, i, g) ==
  IF g.err # None \/ i > Len(connection_map) THEN g
  ELSE LET target == connection_map[i].vals[1]
       IN AddRegularEdges(connection_map, i + 1,
            graph_add_edge(g, connection_map[i].key, IF target = "END" THEN END ELSE target))

\* "Add END edges": targets (of regular and router connections) that are not
\* sources of a regular connection and are nodes of the graph
TerminalNodes(acc, g) ==
  LET all_sources == {acc.connection_map[i].key : i \in DOMAIN acc.connection_map}
      all_targets ==
        UNION {{acc.connection_map[i].vals[j] : j \in DOMAIN acc.connection_map[i].vals} :
                 i \in DOMAIN acc.connection_map}
        \cup
        UNION {{acc.router_connections[i].vals[j] : j \in DOMAIN acc.router_connections[i].vals} :
                 i \in DOMAIN acc.router_connections}
  IN {n \in all_targets \ all_sources : n \in NodeNames(g)}

AddEndEdges(acc, g) ==
  IF g.err # None THEN g
  ELSE [g EXCEPT !.edges = @ \cup {<<n, END>> : n \in TerminalNodes(acc, g)}]

\* GraphBuilder.build_from_copilot_json
build_from_copilot_json(config) ==
  LET entry_point_name == CopilotEntryPoint(config)
      acc == ClassifyConnections(config, 1,
               [connection_map |-> <<>>, router_connections |-> <<>>, router_sources |-> <<>>])
      g1 == AddCopilotNodes(EmptyGraph, config.activities)
      g2 == IF entry_point_name = None
            THEN Raise(g1, "ValueError: Could not determine entry point from workflow")
            ELSE graph_add_edge(g1, START, entry_point_name)
      g3 == AddRouterEdges(acc.router_connections, acc.router_sources, 1, g2)
      g4 == AddRegularEdges(acc.connection_map, 1, g3)
      g5 == AddEndEdges(acc, g4)
  IN IF Len(config.activities) = 0
     THEN Raise(EmptyGraph, "ValueError: Workflow JSON missing WorkflowActivities")
     ELSE graph_compile(g5)

(***************************************************************************)
(* GraphBuilder.build_hardcoded and build_graph                             *)
(***************************************************************************)

\* GraphBuilder.build_hardcoded
build_hardcoded ==
  [err |-> None,
   nodes |-> {[name |-> n, fn |-> node_mapping[n]] :
                n \in {"LLMTask", "ToolTask", "AgentTask", "RetrieverTask",
                       "RenderTaskChat", "RenderTaskEmail"}},
   edges |-> {<<START, "LLMTask">>, <<"LLMTask", "ToolTask">>, <<"ToolTask", "AgentTask">>,
              <<"AgentTask", "RetrieverTask">>, <<"RenderTaskChat", END>>,
              <<"RenderTaskEmail", END>>},
   branches |-> {[from |-> "RetrieverTask", router |-> node_mapping["router"],
                  routes |-> [k \in {"RenderTaskChat", "RenderTaskEmail"} |-> k]]}]

\* build_graph, lines 1326-1330: a file of neither shape is given to the generic
\* builder and, when that raises ValueError, to the copilot builder
build_either(config) ==
  IF build_from_json(config).err = None THEN build_from_json(config)
  ELSE build_from_copilot_json(config)

\* a build_graph that lets the error of a builder escape
build_graph_unguarded(file) ==
  IF ~file.exists THEN build_hardcoded
  ELSE IF file.shape = "copilot" THEN build_from_copilot_json(file.config)
  ELSE IF file.shape = "generic" THEN build_from_json(file.config)
  ELSE build_either(file.config)

\* a build_graph that ignores the workflow file
build_graph_ignoring_file(file) ==
  build_hardcoded

\* a build_graph that would refuse a file of neither shape
build_graph_strict(file) ==
  IF ~file.exists THEN build_hardcoded
  ELSE IF file.shape = "neither"
    THEN Raise(EmptyGraph, "ValueError: workflow matches neither shape")
  ELSE build_hardcoded

\* build_graph on workflow.json: file = [exists, shape, config], shape "copilot"
\* (WorkflowActivities and StartActivityId present), "generic" (entry_point and
\* nodes present) or "neither"; any failure falls back to the hardcoded graph
build_graph(file) ==
  LET built == IF file.shape = "copilot" THEN build_from_copilot_json(file.config)
               ELSE IF file.shape = "generic" THEN build_from_json(file.config)
               ELSE build_either(file.config)
  IN IF ~file.exists THEN build_hardcoded
     ELSE IF built.err # None THEN build_hardcoded
     ELSE built

(***************************************************************************)
(* GraphState and its initial value                                         *)
(***************************************************************************)

\* the requests sent: [message, humanInput, channel] of ChatRequest
Requests ==
  {[message |-> "refund order 1001", humanInput |-> None, channel |-> "chat"],
   [message |-> "refund order 1001", humanInput |-> None, channel |-> "email"],
   [message |-> "yes", humanInput |-> None, channel |-> "chat"],
   [message |-> "no", humanInput |-> None, channel |-> "chat"],
   [message |-> "maybe", humanInput |-> None, channel |-> "chat"],
   [message |-> "maybe", humanInput |-> "maybe", channel |-> "chat"],
   [message |-> "maybe", humanInput |-> "YES", channel |-> "chat"]}

\* str.lower().strip() on the texts of the requests
LowerStrip(text) == IF text = "YES" THEN "yes" ELSE text

\* Python truthiness of an optional string
Truthy(x) == x # None /\ x # ""

\* initial_state (graph.py:1285); input and user_input are the message followed
\* by the review feedback user_task2 appends
initial_state(input_text, channel) ==
  [input |-> <<input_text>>,
   user_input |-> <<input_text>>,
   channel |-> IF Truthy(channel) THEN channel ELSE "chat",
   intent |-> None,
   entities |-> [orderId |-> None],
   parsed_query |-> None,
   isFastenerSearch |-> FALSE,
   tool_result |-> None,
   agent_result |-> None,
   retrieved |-> "empty",
   response |-> None,
   needs_human_review |-> FALSE,
   human_input |-> None,
   review_message |-> None]

\* update_state(state, field=value) for one field
update_state(state, field, value) == [state EXCEPT ![field] = value]

(***************************************************************************)
(* IntentClassifier                                                         *)
(***************************************************************************)

\* the texts a message may have that name an order or a price; "prices" is no
\* price keyword (the pattern matches whole words), "HOW MUCH" is one once the
\* text is lowered
TextsWithOrderId ==
  {"refund order 1001", "price of order 1001", "HOW MUCH is order 1001",
   "prices for order 1001"}

\* str.lower() on the first text of an input
Lower(input) ==
  [i \in DOMAIN input |->
     IF i = 1 /\ input[i] = "HOW MUCH is order 1001" THEN "how much is order 1001"
     ELSE input[i]]

\* IntentClassifier.extract_order_id: the digits after "order" in any case, else a
\* number of four or more digits; the feedback texts carry none
extract_order_id(input) ==
  IF Len(input) > 0 /\ input[1] \in TextsWithOrderId THEN "1001" ELSE None

\* the price keywords of llm_task and classify_intent, searched as whole words
\* in the lowered text
HasPriceKeyword(input_lower) ==
  /\ Len(input_lower) > 0
  /\ input_lower[1] \in {"price of order 1001", "how much is order 1001",
                         "how much is shipping"}

\* IntentClassifier.classify_intent: the order id is taken from state.input, the
\* keywords from the lowered text
classify_intent(input, input_lower) ==
  LET order_id == extract_order_id(input)
  IN IF HasPriceKeyword(input_lower) /\ order_id # None
       THEN [intent |-> "order_price", entities |-> [orderId |-> order_id]]
     ELSE IF Len(input_lower) > 0 /\ input_lower[1] = "refund order 1001"
       THEN [intent |-> "refund", entities |-> [orderId |-> order_id]]
     ELSE IF order_id # None
       THEN [intent |-> "order_status", entities |-> [orderId |-> order_id]]
     ELSE IF Len(input_lower) > 0 /\ input_lower[1] = "how much is shipping"
       THEN [intent |-> "policy_question", entities |-> [orderId |-> None]]
     ELSE [intent |-> "chit_chat", entities |-> [orderId |-> None]]

(***************************************************************************)
(* WorkflowTasks: each handler gives the set of its possible results, one   *)
(* per answer of the services it awaits (language model, database); calls   *)
(* counts the calls of LLMTaskHandler.invoke_with_fallback the handler made *)
(***************************************************************************)

Returned(s) == [raised |-> FALSE, s |-> s, calls |-> 0]
Raised(s) == [raised |-> TRUE, s |-> s, calls |-> 0]

\* LLMTaskHandler.invoke_with_fallback, line 420: call_count += 1 before the
\* model is asked
invoke_with_fallback(r) == [r EXCEPT !.calls = @ + 1]

\* what model.ainvoke may give llm_task: a JSON object naming an intent and,
\* in a dict of entities, an order id or none ("object"), a JSON object whose
\* entities are not a dict ("null_entities"), a failure or empty text (the
\* heuristic fallback runs), text that does not parse (the defaults apply), or
\* JSON that is not an object
Reply(kind, intent, orderId) == [kind |-> kind, intent |-> intent, orderId |-> orderId]

ModelIntents == {"refund", "chit_chat", "order_status", "order_price"}

ModelReplies ==
  {Reply("object", i, o) : i \in ModelIntents, o \in {None, "9999"}}
    \cup {Reply("null_entities", i, None) : i \in ModelIntents}
    \cup {Reply(k, None, None) : k \in {"error", "unparsable", "not_an_object"}}

\* the replies followed in a chat turn
LLMIntents == {"refund", "chit_chat"}
LLMReplies ==
  {Reply("object", i, None) : i \in LLMIntents}
    \cup {Reply(k, None, None) : k \in {"error", "unparsable", "not_an_object"}}

\* llm_task without lines 486-490: the classification is kept as it came
llm_task_reply_kept(state, reply) ==
  LET input_text == IF Len(state.input) > 0 THEN state.input ELSE state.user_input
      order_id == extract_order_id(input_text)
      parsed ==
        IF reply.kind = "error" THEN classify_intent(state.input, Lower(input_text))
        ELSE IF reply.kind = "unparsable"
          THEN [intent |-> "chit_chat", entities |-> [orderId |-> None]]
        ELSE [intent |-> reply.intent, entities |-> [orderId |-> reply.orderId]]
  IN invoke_with_fallback(
       IF reply.kind = "not_an_object" THEN Raised(state)
       ELSE IF reply.kind = "null_entities"
         THEN IF order_id # None THEN Raised(state)
              ELSE Returned([state EXCEPT !.intent = parsed.intent, !.entities = None,
                                          !.isFastenerSearch = FALSE])
       ELSE Returned([state EXCEPT
              !.intent = parsed.intent,
              !.entities = IF order_id # None THEN [orderId |-> order_id]
                           ELSE parsed.entities,
              !.isFastenerSearch = FALSE]))

\* WorkflowTasks.llm_task on one reply of the model
llm_task_reply(state, reply) ==
  LET input_text == IF Len(state.input) > 0 THEN state.input ELSE state.user_input
      input_lower == Lower(input_text)
      order_id == extract_order_id(input_text)
      parsed ==
        IF reply.kind = "error" THEN classify_intent(state.input, input_lower)
        ELSE IF reply.kind = "unparsable"
          THEN [intent |-> "chit_chat", entities |-> [orderId |-> None]]
        ELSE [intent |-> reply.intent, entities |-> [orderId |-> reply.orderId]]
  IN invoke_with_fallback(
       IF reply.kind = "not_an_object" THEN Raised(state)
       ELSE IF reply.kind = "null_entities"
         THEN IF order_id # None THEN Raised(state)
              ELSE Returned([state EXCEPT !.intent = parsed.intent, !.entities = None,
                                          !.isFastenerSearch = FALSE])
       ELSE Returned([state EXCEPT
              !.intent = IF order_id # None /\ HasPriceKeyword(input_lower)
                         THEN "order_price" ELSE parsed.intent,
              !.entities = IF order_id # None THEN [orderId |-> order_id]
                           ELSE parsed.entities,
              !.isFastenerSearch = FALSE]))

\* WorkflowTasks.llm_task
llm_task(state) ==
  {llm_task_reply(state, reply) : reply \in LLMReplies}

\* what the tool behind an intent may give: a result dict, None (no order id or
\* no such order), or an exception of the database driver
ToolAnswers(intent, order_id) ==
  IF order_id = None THEN {None}
  ELSE IF intent = "refund" THEN {"RefundPending", "RefundRejected", "exception"}
  ELSE IF intent = "track_order" THEN {"Tracking", None, "exception"}
  ELSE {"Order", None, "exception"}

\* WorkflowTasks.tool_task: an exception of the tool is caught, tool_result = None
tool_task(state) ==
  LET order_id == IF state.entities.orderId # None THEN state.entities.orderId
                  ELSE extract_order_id(state.input)
  IN IF state.intent \notin {"order_status", "order_price", "track_order", "refund"}
     THEN {Returned(state)}
     ELSE {Returned(update_state(state, "tool_result", IF a = "exception" THEN None ELSE a)) :
             a \in ToolAnswers(state.intent, order_id)}

\* WorkflowTasks.agent_task
agent_task(state) ==
  {Returned(update_state(state, "agent_result",
      IF state.intent \in {"policy_question", "order_status", "track_order", "refund"}
      THEN "NeedDocs" ELSE "NoDocs"))}

\* WorkflowTasks.retriever_task: retrieve_docs is awaited without a try
retriever_task(state) ==
  IF state.agent_result \in {None, "NoDocs"} THEN {Returned(state)}
  ELSE {Returned(update_state(state, "retrieved", "docs")),
        Returned(update_state(state, "retrieved", "empty")),
        Raised(state)}

\* WorkflowTasks.user_task1
user_task1(state) ==
  {Returned(update_state(state, "user_input",
      IF Len(state.user_input) > 0 THEN state.user_input ELSE state.input))}

\* WorkflowTasks.user_task2
user_task2(state) ==
  IF state.needs_human_review /\ ~Truthy(state.human_input)
  THEN {Returned([state EXCEPT
          !.review_message = IF Truthy(@) THEN @ ELSE "Please review and provide feedback",
          !.needs_human_review = TRUE])}
  ELSE IF Truthy(state.human_input)
  THEN {Returned([state EXCEPT
          !.user_input = Append(state.user_input, state.human_input),
          !.input = Append(state.user_input, state.human_input),
          !.needs_human_review = FALSE,
          !.review_message = None])}
  ELSE {Returned(update_state(state, "needs_human_review", FALSE))}

\* the approval prompt of human_review_task, which names the order and the amount
ReviewPrompt(order_id, tool_result) ==
  IF tool_result \in {"RefundPending", "RefundRejected"}
  THEN IF order_id = None THEN "Approval Required: order unknown, amount known"
       ELSE "Approval Required: order 1001, amount known"
  ELSE IF order_id = None THEN "Approval Required: order unknown, amount unknown"
       ELSE "Approval Required: order 1001, amount unknown"

\* the tokens human_review_task takes for an approval
ApproveTokens == {"yes", "y", "approve", "confirm"}

\* WorkflowTasks.human_review_task
human_review_task(state) ==
  LET human_input == IF state.human_input = None THEN "" ELSE LowerStrip(state.human_input)
      review_message == ReviewPrompt(state.entities.orderId, state.tool_result)
  IN IF state.intent # "refund"
       THEN {Returned(update_state(state, "needs_human_review", FALSE))}
     ELSE IF human_input \in ApproveTokens
       THEN {Returned([state EXCEPT !.needs_human_review = FALSE, !.review_message = None])}
     ELSE IF human_input # ""
       THEN {Returned([state EXCEPT !.needs_human_review = FALSE,
                                    !.response = "Refund request has been cancelled.",
                                    !.review_message = None])}
     ELSE {Returned([state EXCEPT !.needs_human_review = TRUE,
                                  !.review_message = review_message,
                                  !.response = review_message])}

\* ResponseFormatter.format_order_price: the total of the order, or that no
\* price was found when the tool result carries no totalAmount
format_order_price(tool_result) ==
  IF tool_result = "OrderStatusOnly" THEN "I couldn't find the price for order"
  ELSE "The total price for order"

\* ResponseFormatter.format_tool_response
format_tool_response(intent, tool_result) ==
  IF intent = "order_price" THEN format_order_price(tool_result)
  ELSE "Formatted tool result"

\* WorkflowTasks._generate_fallback_response
generate_fallback_response(state) ==
  IF state.tool_result # None THEN format_tool_response(state.intent, state.tool_result)
  ELSE IF state.retrieved = "docs" THEN "According to our documentation"
  ELSE "I'm here to help!"

\* lines 715-746 of render_chat: the model is asked, and the fallback answers
\* when it fails or gives nothing
render_chat_model(state) ==
  {invoke_with_fallback(Returned(update_state(state, "response", "Model answer"))),
   invoke_with_fallback(
     Returned(update_state(state, "response", generate_fallback_response(state))))}

\* render_chat with no step of its own for a tool result or a missing order: the
\* model words every answer
render_chat_by_model(state) ==
  IF Truthy(state.response) /\ state.needs_human_review THEN {Returned(state)}
  ELSE render_chat_model(state)

\* WorkflowTasks.render_chat; a tool result is None or a dict that is not empty
render_chat(state) ==
  IF Truthy(state.response) /\ state.needs_human_review THEN {Returned(state)}
  ELSE IF state.tool_result # None
    THEN {Returned(update_state(state, "response",
                                format_tool_response(state.intent, state.tool_result)))}
  ELSE IF state.intent \in {"order_status", "order_price", "track_order"}
    THEN {Returned(update_state(state, "response", "I couldn't find order"))}
  ELSE IF state.parsed_query \notin {None, "{}"}
    THEN {Returned(update_state(state, "response", "I found fastener search results"))}
  ELSE render_chat_model(state)

\* WorkflowTasks.render_email: every failure inside is caught
render_email(state) ==
  {invoke_with_fallback(Returned(update_state(state, "response", "Subject and body")))}

\* the handler registered under a node function name
Handler(fn, state) ==
  CASE fn = "UserTask1" -> user_task1(state)
    [] fn = "UserTask2" -> user_task2(state)
    [] fn = "LLMTask" -> llm_task(state)
    [] fn = "ToolTask" -> tool_task(state)
    [] fn = "AgentTask" -> agent_task(state)
    [] fn = "RetrieverTask" -> retriever_task(state)
    [] fn = "HumanReviewTask" -> human_review_task(state)
    [] fn = "RenderTaskChat" -> render_chat(state)
    [] fn = "RenderTaskEmail" -> render_email(state)

(***************************************************************************)
(* WorkflowRouters                                                          *)
(***************************************************************************)

\* the routing key a routing function returns on a state
Router(fn, state) ==
  CASE fn = "workflow_router" ->
         IF state.isFastenerSearch THEN "FastenerIntentClassifier" ELSE "ToolTask"
    [] fn = "needs_review_router" ->
         IF state.intent = "refund" THEN "HumanReviewTask" ELSE "RetrieverTask"
    [] fn = "should_render_router" ->
         IF state.channel = "email" THEN "RenderTaskEmail" ELSE "RenderTaskChat"
    [] fn = "fastener_search_router" ->
         IF state.isFastenerSearch THEN "FastenerSearch" ELSE "ErrorHandler"
    [] fn = "llm_task_router" ->
         IF state.needs_human_review THEN "UserTask2" ELSE "ToolTask"
    [] fn = "router_task1_router" ->
         IF state.intent \in {"order_status", "track_order", "policy_question", "chit_chat"}
         THEN "RenderTaskChat" ELSE "AgentTask"

(***************************************************************************)
(* The workflow definitions the server is started with (workflow.json)      *)
(***************************************************************************)

Edge(from, to) == <<from, to>>

Cond(from, router_function, routes) ==
  [from |-> from, router_function |-> router_function, routes |-> routes]

Generic(entry_point, nodes, edges, conditional_edges) ==
  [exists |-> TRUE, shape |-> "generic",
   config |-> [entry_point |-> entry_point, nodes |-> nodes, edges |-> edges,
               conditional_edges |-> conditional_edges]]

\* no workflow.json: build_graph falls back to the hardcoded graph
NoWorkflowFile ==
  [exists |-> FALSE, shape |-> "neither",
   config |-> [entry_point |-> "", nodes |-> <<>>, edges |-> <<>>, conditional_edges |-> <<>>]]

\* refunds go through the review step, everything else skips it
ReviewWorkflow ==
  Generic("LLMTask",
    <<"LLMTask", "ToolTask", "AgentTask", "HumanReviewTask", "RetrieverTask", "RenderTaskChat">>,
    <<Edge("LLMTask", "ToolTask"), Edge("ToolTask", "AgentTask"),
      Edge("HumanReviewTask", "RetrieverTask"), Edge("RetrieverTask", "RenderTaskChat"),
      Edge("RenderTaskChat", "END")>>,
    <<Cond("AgentTask", "needs_review_router",
           [k \in {"HumanReviewTask", "RetrieverTask"} |-> k])>>)

\* A -> B -> [conditional: C, D]: the review step B is followed by a conditional
\* edge on the given routing function, whose two keys lead to C and D
BranchWorkflow(router_function, keyC, keyD) ==
  Generic("LLMTask",
    <<"LLMTask", "ToolTask", "HumanReviewTask", "RenderTaskChat", "RenderTaskEmail">>,
    <<Edge("LLMTask", "ToolTask"), Edge("ToolTask", "HumanReviewTask"),
      Edge("RenderTaskChat", "END"), Edge("RenderTaskEmail", "END")>>,
    <<Cond("HumanReviewTask", router_function,
           [k \in {keyC, keyD} |-> IF k = keyC THEN "RenderTaskChat" ELSE "RenderTaskEmail"])>>)

\* a refund goes round the cycle LLMTask -> HumanReviewTask -> UserTask2 -> LLMTask
\* while its review is pending; everything else is rendered
LoopWorkflow ==
  Generic("LLMTask",
    <<"LLMTask", "HumanReviewTask", "UserTask2", "RenderTaskChat">>,
    <<Edge("LLMTask", "HumanReviewTask"), Edge("UserTask2", "LLMTask"),
      Edge("RenderTaskChat", "END")>>,
    <<Cond("HumanReviewTask", "llm_task_router",
           [k \in {"ToolTask", "UserTask2"} |->
              IF k = "ToolTask" THEN "RenderTaskChat" ELSE "UserTask2"])>>)

\* a route table that lacks one of the keys its routing function returns
PartialRoutesWorkflow ==
  Generic("LLMTask",
    <<"LLMTask", "ToolTask", "HumanReviewTask", "RenderTaskChat">>,
    <<Edge("ToolTask", "HumanReviewTask"), Edge("HumanReviewTask", "RenderTaskChat"),
      Edge("RenderTaskChat", "END")>>,
    <<Cond("LLMTask", "llm_task_router", [k \in {"ToolTask"} |-> k])>>)

\* a step with two direct edges: LLMTask -> ToolTask and LLMTask -> AgentTask
FanOutWorkflow ==
  Generic("LLMTask",
    <<"LLMTask", "ToolTask", "AgentTask", "RenderTaskChat">>,
    <<Edge("LLMTask", "ToolTask"), Edge("LLMTask", "AgentTask"),
      Edge("ToolTask", "RenderTaskChat"), Edge("AgentTask", "RenderTaskChat"),
      Edge("RenderTaskChat", "END")>>,
    <<>>)

BranchOnChannel == BranchWorkflow("should_render_router", "RenderTaskChat", "RenderTaskEmail")
BranchOnReviewFlag == BranchWorkflow("llm_task_router", "ToolTask", "UserTask2")

Workflows ==
  {NoWorkflowFile, ReviewWorkflow, BranchOnChannel, BranchOnReviewFlag, LoopWorkflow,
   PartialRoutesWorkflow, FanOutWorkflow}

(***************************************************************************)
(* tools/order_tools.py over neo4j_module.py: the order store               *)
(* orders: order id -> the Order node (exists FALSE: no such node), recent   *)
(* tells whether orderDate is at most 30 days back; requests: the            *)
(* ReturnRequest nodes                                                       *)
(***************************************************************************)

\* order ids a tool is called with ("" is the empty id)
OrderIds == {"", "1001", "1002"}

\* the ids of Order nodes
StoredIds == OrderIds \ {""}

NoOrder == [exists |-> FALSE, status |-> "None", recent |-> FALSE]

OrderStatuses == {"Delivered", "Shipped", "Processing", "Cancelled"}

\* the Order nodes the store may hold
OrderNodes ==
  {NoOrder} \cup [exists : {TRUE}, status : OrderStatuses, recent : BOOLEAN]

\* the steps of a tool call at which a query of the store may raise
FailPoints == {"never", "eligibility", "initiate", "price", "status"}

\* what a tool call gives: ret is "None", "dict" or "raised"
ToolResult(ret, orderId, status, refundId, requiresApproval, needsHumanReview) ==
  [ret |-> ret, orderId |-> orderId, status |-> status, refundId |-> refundId,
   requiresApproval |-> requiresApproval, needsHumanReview |-> needsHumanReview]

ReturnsNone == ToolResult("None", "", "None", <<>>, FALSE, FALSE)

ToolRaised == ToolResult("raised", "", "None", <<>>, FALSE, FALSE)

\* a tool call's effect: the store after it and its result
Effect(orders, requests, res) ==
  [orders |-> orders, requests |-> requests, res |-> res]

\* neo4j_module.check_return_eligibility: the order exists, is at most 30 days
\* old and is not Cancelled, Refunded, Processing or Pending
check_return_eligibility(orders, order_id) ==
  IF order_id \notin DOMAIN orders \/ ~orders[order_id].exists THEN FALSE
  ELSE /\ orders[order_id].recent
       /\ orders[order_id].status \notin {"Cancelled", "Refunded", "Processing", "Pending"}

\* MERGE (r:ReturnRequest {id}) SET ...: one node per id
MergeRequest(requests, r) ==
  {q \in requests : q.id # r.id} \cup {r}

\* an initiate_return_request that approves on its own whatever it is asked
initiate_return_request_auto(orders, requests, order_id, requires_approval, now) ==
  IF ~check_return_eligibility(orders, order_id)
  THEN Effect(orders, requests, [success |-> FALSE, returnRequestId |-> <<>>])
  ELSE Effect([orders EXCEPT ![order_id].status = "Returned"],
              MergeRequest(requests, [id |-> <<order_id, now>>, orderId |-> order_id,
                                      status |-> "Approved", requiresApproval |-> FALSE]),
              [success |-> TRUE, returnRequestId |-> <<order_id, now>>])

\* neo4j_module.initiate_return_request: the request node is RET-<order>-<now>
initiate_return_request(orders, requests, order_id, requires_approval, now) ==
  IF ~check_return_eligibility(orders, order_id)
  THEN Effect(orders, requests, [success |-> FALSE, returnRequestId |-> <<>>])
  ELSE IF requires_approval
    THEN Effect(orders,
                MergeRequest(requests, [id |-> <<order_id, now>>, orderId |-> order_id,
                                        status |-> "Pending Approval",
                                        requiresApproval |-> TRUE]),
                [success |-> TRUE, returnRequestId |-> <<order_id, now>>])
  ELSE Effect([orders EXCEPT ![order_id].status = "Returned"],
              MergeRequest(requests, [id |-> <<order_id, now>>, orderId |-> order_id,
                                      status |-> "Approved", requiresApproval |-> FALSE]),
              [success |-> TRUE, returnRequestId |-> <<order_id, now>>])

\* order_tools.process_refund; fails is the query that raises, if any
process_refund(orders, requests, order_id, now, fails) ==
  LET initiated == initiate_return_request(orders, requests, order_id, TRUE, now)
  IN IF order_id = "" THEN Effect(orders, requests, ReturnsNone)
     ELSE IF fails = "eligibility" THEN Effect(orders, requests, ToolRaised)
     ELSE IF ~check_return_eligibility(orders, order_id)
       THEN Effect(orders, requests,
                   ToolResult("dict", order_id, "Rejected", <<>>, FALSE, FALSE))
     ELSE IF fails = "initiate" THEN Effect(orders, requests, ToolRaised)
     ELSE IF ~initiated.res.success
       THEN Effect(initiated.orders, initiated.requests,
                   ToolResult("dict", order_id, "Failed", <<>>, FALSE, FALSE))
     ELSE IF fails = "price"
       THEN Effect(initiated.orders, initiated.requests, ToolRaised)
     ELSE Effect(initiated.orders, initiated.requests,
                 ToolResult("dict", order_id, "Pending Approval",
                            initiated.res.returnRequestId, TRUE, TRUE))

\* a lookup that makes up a demo order when the store has none
lookup_order_status_demo(orders, requests, order_id, fails) ==
  IF order_id = "" THEN Effect(orders, requests, ReturnsNone)
  ELSE IF ~orders[order_id].exists
    THEN Effect([orders EXCEPT ![order_id] =
                   [exists |-> TRUE, status |-> "Processing", recent |-> TRUE]],
                requests,
                ToolResult("dict", order_id, "Processing", <<>>, FALSE, FALSE))
  ELSE Effect(orders, requests,
              ToolResult("dict", order_id, orders[order_id].status, <<>>, FALSE, FALSE))

\* order_tools.lookup_order_status: get_order_status, then the whole order
\* (_get_order_from_neo4j gives None when its query raises, and the status
\* record is returned instead: the same id and status)
lookup_order_status(orders, requests, order_id, fails) ==
  IF order_id = "" THEN Effect(orders, requests, ReturnsNone)
  ELSE IF fails = "status" THEN Effect(orders, requests, ToolRaised)
  ELSE IF ~orders[order_id].exists THEN Effect(orders, requests, ReturnsNone)
  ELSE Effect(orders, requests,
              ToolResult("dict", order_id, orders[order_id].status, <<>>, FALSE, FALSE))

\* neo4j_module.approve_return_request, reached through order_tools.approve_return
approve_return_request(orders, requests, return_request_id, approved) ==
  LET found == {q \in requests : q.id = return_request_id}
  IN IF found = {} THEN Effect(orders, requests, ReturnsNone)
     ELSE LET r == CHOOSE q \in found : TRUE
          IN IF approved
             THEN Effect([orders EXCEPT ![r.orderId].status = "Returned"],
                         MergeRequest(requests, [r EXCEPT !.status = "Approved"]),
                         ToolResult("dict", r.orderId, "Approved", r.id, FALSE, FALSE))
             ELSE Effect(orders,
                         MergeRequest(requests, [r EXCEPT !.status = "Rejected"]),
                         ToolResult("dict", "", "Rejected", r.id, FALSE, FALSE))

\* no tool called yet
NoCall == [op |-> "none", n |-> 0, order_id |-> "", result |-> ReturnsNone]

(***************************************************************************)
(* The server: chat_endpoint over the compiled graph and the checkpointer   *)
(***************************************************************************)

VARIABLES
  workflow,   \* the workflow.json the server was started with
  compiled,   \* server.py:32  compiled = build_graph(checkpointer=checkpoint_store)
  store,      \* checkpoint_store: thread id -> the last checkpoint of the thread
  rq,         \* the request being served
  result,     \* the answer to the last request, once it is served
  ranBefore,  \* thread id -> the steps its last turn ran before it asked for review
  turns,      \* requests received so far
  loaded,     \* what the builder of the file's shape gave when called on its own
  orders,     \* the Order nodes of the order store
  requests,   \* the ReturnRequest nodes of the order store
  clock,      \* datetime.utcnow() in seconds
  toolcall,   \* the last call of an order tool and its result
  call_count, \* LLMTaskHandler.call_count
  task        \* the last call of a handler on its own, the reply it got, its result

vars ==
  <<workflow, compiled, store, rq, result, ranBefore, turns, loaded,
    orders, requests, clock, toolcall, call_count, task>>

\* the order store and the tool calls
dbvars == <<orders, requests, clock, toolcall>>

\* the counter of LLMTaskHandler and the handler calls that are followed on their
\* own; the counter is written to the log and read by no decision of the program,
\* and the turns of the server are followed without it
llmvars == <<call_count, task>>

\* the server and the graph it runs
srvvars == <<workflow, compiled, store, rq, result, ranBefore, turns, loaded>>

\* no handler call yet
NoTask ==
  [fn |-> None, state |-> initial_state("", "chat"), reply |-> Reply(None, None, None),
   r |-> Returned(initial_state("", "chat"))]

\* the order store before any tool call: no order, no return request; the
\* handler of the model calls as WorkflowTasks.__init__ leaves it
NoOrders ==
  /\ orders = [o \in StoredIds |-> NoOrder]
  /\ requests = {}
  /\ clock = 0
  /\ toolcall = NoCall
  /\ call_count = 0
  /\ task = NoTask

\* conversation (thread) ids
Threads == {"t1", "t2"}

\* requests received in one behaviour
MaxTurns == 2

\* langgraph's default recursion_limit: no config of the source sets another
RecursionLimit == 25

\* the messages chat_endpoint takes for the answer to a review
\* the approvals alone
DecisionTokensApprovalsOnly ==
  {"yes", "y", "approve", "confirm"}

DecisionTokens == {"yes", "y", "approve", "confirm", "no", "n", "reject", "cancel"}

NoState == initial_state("", "chat")

\* rq: fresh is the state built from the request, s the state of the run, cur its
\* current node, visited the nodes run so far, haltAt the position in visited of
\* the first step that set needs_human_review, inTry whether the run is inside
\* the try of lines 106-119, resumed whether it started from the checkpoint,
\* decision and prompt the human input and the review message it started with,
\* before the steps the thread's previous turn ran before it asked for review,
\* also the other nodes active in the superstep of cur
Idle ==
  [phase |-> "idle", thread |-> None, fresh |-> NoState, s |-> NoState, cur |-> None,
   step |-> 0, visited |-> <<>>, inTry |-> FALSE, resumed |-> FALSE, decision |-> None,
   prompt |-> None, runs |-> 0, haltAt |-> 0, errors |-> {}, before |-> {}, also |-> {}]

NoResult ==
  [outcome |-> "none", thread |-> None, suspended |-> FALSE, response |-> "",
   review_message |-> None, visited |-> <<>>, haltAt |-> 0, resumed |-> FALSE,
   decision |-> None, prompt |-> None, runs |-> 0, errors |-> {}, before |-> {}]

\* the steps of a run that ran before the step that asked for review
RanBeforeReview(visited, haltAt) ==
  IF haltAt = 0 THEN {} ELSE {visited[i] : i \in 1..(haltAt - 1)}

\* graph.set_entry_point: the node the START edge leads to
EntryPoint(g) == CHOOSE n \in NodeNames(g) : <<START, n>> \in g.edges

NodeFn(g, name) == (CHOOSE n \in g.nodes : n.name = name).fn

\* the handlers that assign needs_human_review = True
SuspendingSteps == {"HumanReviewTask", "UserTask2"}

\* the branches of a node whose routing function returns a key the route table lacks
MissingRoutes(g, name, state) ==
  {b \in g.branches : b.from = name /\ Router(b.router, state) \notin DOMAIN b.routes}

\* the nodes the next superstep runs: the targets of the node's direct edges and
\* of its branches (END is no node)
NextNodes(g, name, state) ==
  ({e[2] : e \in {d \in g.edges : d[1] = name}}
     \cup {b.routes[Router(b.router, state)] :
             b \in {c \in g.branches : c.from = name /\ Router(c.router, state) \in DOMAIN c.routes}})
  \ {END}

\* line 166: not response or response.strip() == ""
Blank(text) == ~Truthy(text) \/ text = " "

\* a response text taken from the state and never made up
ServerResponseUnfilled(state) ==
  IF state.needs_human_review /\ Truthy(state.review_message) THEN state.review_message
  ELSE IF Truthy(state.response) THEN state.response
  ELSE ""

\* a response text that is never replaced by the review message
ServerResponseOfStateOnly(state) ==
  IF Truthy(state.response) THEN state.response
  ELSE "I've processed your request. How can I help you further?"

\* chat_endpoint, lines 139-163 and 165-270: the response text sent back
ServerResponse(state) ==
  LET response == IF state.needs_human_review /\ Truthy(state.review_message)
                  THEN state.review_message
                  ELSE IF Truthy(state.response) THEN state.response ELSE ""
  IN
  IF ~Blank(response) THEN response
  ELSE IF Truthy(state.parsed_query) /\ state.parsed_query \notin {"{}", "null"}
  THEN "I found fastener search results"
  ELSE IF state.tool_result # None THEN "Your request has been processed"
  ELSE IF state.retrieved = "docs" THEN "According to our documentation"
  ELSE IF Truthy(state.intent) THEN "I've processed your request (intent)"
  ELSE "I've processed your request. How can I help you further?"

\* compiled.ainvoke(values, config): the input is written to the thread's
\* checkpoint and the run starts at the entry point
StartRun(r, values, inTry, resumed) ==
  [r EXCEPT !.phase = "running", !.s = values, !.cur = EntryPoint(compiled), !.step = 0,
            !.visited = <<>>, !.haltAt = 0, !.inTry = inTry, !.resumed = resumed,
            !.runs = @ + 1, !.also = {}]

\* a checkpoint lookup that is not keyed by the thread id
get_state_unkeyed(t) ==
  store["t1"]

\* compiled.get_state(config): the checkpoint of the thread named in config
get_state(t) ==
  store[t]

\* chat_endpoint, lines 93-122: a request arrives; it continues from the
\* checkpoint when it carries a decision and the checkpoint has a review pending
\* (requests are served one after the other: two conversations share nothing
\* but the compiled graph, which no request changes); loads tells whether
\* get_state returns: when it raises, line 117 catches the exception and line
\* 119 runs the graph on the fresh state
Receive(t, message, humanInput, channel, loads) ==
  LET state == [initial_state(message, channel) EXCEPT
                  !.human_input = IF Truthy(humanInput) THEN humanInput ELSE None]
      decision == Truthy(humanInput) \/ LowerStrip(message) \in DecisionTokens
      current_state == get_state(t)
      pending == current_state.exists /\ current_state.values.needs_human_review
      human_input_value == IF Truthy(humanInput) THEN humanInput ELSE message
      resume == decision /\ loads /\ pending
      values == IF resume
                THEN [current_state.values EXCEPT !.human_input = human_input_value]
                ELSE state
      r0 == [Idle EXCEPT !.thread = t,
                         !.fresh = state,
                         !.decision = IF resume THEN LowerStrip(human_input_value) ELSE None,
                         !.prompt = IF resume THEN current_state.values.review_message
                                    ELSE None,
                         !.errors = IF decision /\ ~loads THEN {"CheckpointError"} ELSE {},
                         !.before = ranBefore[t]]
  IN /\ rq.phase = "idle"
     /\ turns < MaxTurns
     /\ decision \/ loads
     /\ turns' = turns + 1
     /\ rq' = StartRun(r0, values, decision /\ loads, resume)
     /\ store' = [store EXCEPT ![t] = [exists |-> TRUE, values |-> values]]
     /\ result' = NoResult
     /\ UNCHANGED <<workflow, compiled, ranBefore, loaded>>
     /\ UNCHANGED <<dbvars, llmvars>>

\* the request ends: HTTP 200 with the final state, or HTTP 500
Finished(r, outcome, state, visited, haltAt, errors) ==
  [outcome |-> outcome, thread |-> r.thread,
   suspended |-> IF outcome = "ok" THEN state.needs_human_review ELSE FALSE,
   response |-> IF outcome = "ok" THEN ServerResponse(state) ELSE "",
   review_message |-> IF outcome = "ok" THEN state.review_message ELSE None,
   visited |-> visited, haltAt |-> haltAt, resumed |-> r.resumed, decision |-> r.decision,
   prompt |-> r.prompt, runs |-> r.runs, errors |-> errors, before |-> r.before]

\* a run raised: inside the try of lines 106-119 the graph is run again on the
\* fresh state; elsewhere the exception reaches line 404 (HTTP 500)
RunRaised(error, saved, visited, haltAt) ==
  LET t == rq.thread
      errors == rq.errors \cup {error}
  IN IF rq.inTry
     THEN /\ rq' = StartRun([rq EXCEPT !.errors = errors], rq.fresh, FALSE, FALSE)
          /\ store' = [store EXCEPT ![t] = [exists |-> TRUE, values |-> rq.fresh]]
          /\ UNCHANGED <<result, ranBefore>>
     ELSE /\ rq' = Idle
          /\ result' = Finished(rq, "failed", saved.values, visited, haltAt, errors)
          /\ store' = [store EXCEPT ![t] = saved]
          /\ ranBefore' = [ranBefore EXCEPT ![t] = RanBeforeReview(visited, haltAt)]

\* the nodes of a set in one order
RECURSIVE InOrder(_)
InOrder(S) ==
  IF S = {} THEN <<>>
  ELSE LET n == CHOOSE m \in S : TRUE IN <<n>> \o InOrder(S \ {n})

\* a superstep with several active nodes: every node runs on the same state and
\* returns the whole state, so each channel receives several values and the
\* superstep fails with InvalidUpdateError (or with the exception of a handler)
ParallelStep ==
  LET active == {rq.cur} \cup rq.also
      visited == rq.visited \o InOrder(active)
      errors ==
        {"HandlerError" : n \in {m \in active :
            \E h \in Handler(NodeFn(compiled, m), rq.s) : h.raised}}
        \cup {"InvalidUpdateError" : n \in {m \in {rq.cur} :
            \A k \in active : \E h \in Handler(NodeFn(compiled, k), rq.s) : ~h.raised}}
  IN \E e \in errors : RunRaised(e, store[rq.thread], visited, rq.haltAt)

\* one superstep of compiled.ainvoke: the current node's handler runs, its result
\* is checkpointed, its edges and branches give the next nodes
Step ==
  /\ rq.phase = "running"
  /\ IF rq.also # {} THEN ParallelStep ELSE
     \E h \in Handler(NodeFn(compiled, rq.cur), rq.s) :
       LET t == rq.thread
           s2 == h.s
           visited == Append(rq.visited, rq.cur)
           haltAt == IF rq.haltAt = 0 /\ rq.cur \in SuspendingSteps /\ s2.needs_human_review
                     THEN Len(visited) ELSE rq.haltAt
           next == NextNodes(compiled, rq.cur, s2)
           saved == [exists |-> TRUE, values |-> s2]
       IN IF h.raised THEN RunRaised("HandlerError", store[t], rq.visited, rq.haltAt)
          ELSE IF MissingRoutes(compiled, rq.cur, s2) # {}
            THEN RunRaised("KeyError", store[t], visited, haltAt)
          ELSE IF next = {}
            THEN /\ rq' = Idle
                 /\ store' = [store EXCEPT ![t] = saved]
                 /\ result' = Finished(rq, "ok", s2, visited, haltAt, rq.errors)
                 /\ ranBefore' = [ranBefore EXCEPT ![t] = RanBeforeReview(visited, haltAt)]
          ELSE IF rq.step + 1 >= RecursionLimit
            THEN RunRaised("GraphRecursionError", saved, visited, haltAt)
          ELSE /\ rq' = [rq EXCEPT !.s = s2, !.step = @ + 1, !.visited = visited,
                                   !.haltAt = haltAt, !.cur = CHOOSE n \in next : TRUE,
                                   !.also = next \ {CHOOSE n \in next : TRUE}]
               /\ store' = [store EXCEPT ![t] = saved]
               /\ UNCHANGED <<result, ranBefore>>
  /\ UNCHANGED <<workflow, compiled, turns, loaded>>
  /\ UNCHANGED <<dbvars, llmvars>>

\* no graph built yet
NotBuilt == [err |-> "not built", nodes |-> {}, edges |-> {}, branches |-> {}]

Init ==
  /\ workflow \in Workflows
  /\ compiled = build_graph(workflow)
  /\ store = [t \in Threads |-> [exists |-> FALSE, values |-> NoState]]
  /\ rq = Idle
  /\ result = NoResult
  /\ ranBefore = [t \in Threads |-> {}]
  /\ turns = 0
  /\ loaded = NotBuilt
  /\ NoOrders

Next ==
  \/ \E t \in Threads, q \in Requests, loads \in BOOLEAN :
       Receive(t, q.message, q.humanInput, q.channel, loads)
  \/ Step

Spec == Init /\ [][Next]_vars

(***************************************************************************)
(* Building the graph from a workflow.json: the two builders and build_graph *)
(***************************************************************************)

\* the longest node list / activity list of a workflow.json
MaxNodes == 2

\* the longest edge list / connection list of a workflow.json
MaxEdges == 2

SeqsUpTo(S, n) == UNION {[1..k -> S] : k \in 0..n}

\* generic shape: node names, edge end points, conditional edges, entry points
\* ("Foo" is no key of node_mapping)
GenNames == {"LLMTask", "ToolTask", "RouterTask1", "Foo"}

GenEdges ==
  {Edge("LLMTask", "ToolTask"), Edge("LLMTask", "RouterTask1"), Edge("LLMTask", "END"),
   Edge("ToolTask", "END"), Edge("RouterTask1", "ToolTask")}

GenConds ==
  {<<>>,
   <<Cond("LLMTask", "llm_task_router", [k \in {"ToolTask"} |-> "ToolTask"])>>,
   <<Cond("RouterTask1", "router_task1_router", [k \in {"RenderTaskChat"} |-> "ToolTask"])>>,
   <<Cond("LLMTask", "no_such_router", [k \in {"ToolTask"} |-> "ToolTask"])>>}

GenEntries == {"", "LLMTask"}

GenericFiles ==
  {Generic(e, n, d, c) : e \in GenEntries, n \in SeqsUpTo(GenNames, MaxNodes),
                         d \in SeqsUpTo(GenEdges, MaxEdges), c \in GenConds}

\* copilot shape: the activities carry the ids "1", "2", ... in declaration
\* order and follow the Start activity "0" when the file has one
\* ("Foo1" normalizes to no key of node_mapping)
CopNames == {"LLMTask1", "RenderTask1", "RouterTask1", "WorkflowRouter", "Foo1"}

ActIds == [i \in 1..4 |-> CASE i = 1 -> "1" [] i = 2 -> "2" [] i = 3 -> "3" [] OTHER -> "4"]

Activities(names, withStart) ==
  (IF withStart THEN <<[Id |-> "0", Name |-> "Start", Type |-> "Start"]>> ELSE <<>>)
    \o [i \in DOMAIN names |-> [Id |-> ActIds[i], Name |-> names[i], Type |-> "Task"]]

\* connections, by activity id (an id no activity carries is possible)
Connections == {Edge("0", "1"), Edge("0", "2"), Edge("1", "2"), Edge("2", "1"), Edge("1", "3")}

Copilot(names, withStart, connections) ==
  [exists |-> TRUE, shape |-> "copilot",
   config |-> [activities |-> Activities(names, withStart), connections |-> connections,
               start |-> IF withStart THEN "0" ELSE ""]]

CopilotFiles ==
  {Copilot(names, w, c) : names \in SeqsUpTo(CopNames, MaxNodes), w \in BOOLEAN,
                          c \in SeqsUpTo(Connections, MaxEdges)}

\* a file of neither shape: entry_point without nodes, WorkflowActivities
\* without StartActivityId, both or none of them
Neither(entry_point, names, connections) ==
  [exists |-> TRUE, shape |-> "neither",
   config |-> [entry_point |-> entry_point, nodes |-> <<>>, edges |-> <<>>,
               conditional_edges |-> <<>>, activities |-> Activities(names, FALSE),
               connections |-> connections, start |-> ""]]

NeitherFiles ==
  {Neither(e, names, c) : e \in GenEntries, names \in SeqsUpTo(CopNames, MaxNodes),
                          c \in {<<>>, <<Edge("1", "2")>>}}

\* GraphBuilder.build_from_json called on a file of the generic shape
LoadGeneric ==
  /\ workflow.shape = "generic"
  /\ loaded = NotBuilt
  /\ loaded' = build_from_json(workflow.config)
  /\ UNCHANGED <<workflow, compiled, store, rq, result, ranBefore, turns>>
  /\ UNCHANGED <<dbvars, llmvars>>

\* GraphBuilder.build_from_copilot_json called on a file of the copilot shape
LoadCopilot ==
  /\ workflow.shape = "copilot"
  /\ loaded = NotBuilt
  /\ loaded' = build_from_copilot_json(workflow.config)
  /\ UNCHANGED <<workflow, compiled, store, rq, result, ranBefore, turns>>
  /\ UNCHANGED <<dbvars, llmvars>>

\* the two builders tried in turn on a file of neither shape
LoadNeither ==
  /\ workflow.exists
  /\ workflow.shape = "neither"
  /\ loaded = NotBuilt
  /\ loaded' = build_either(workflow.config)
  /\ UNCHANGED <<workflow, compiled, store, rq, result, ranBefore, turns>>
  /\ UNCHANGED <<dbvars, llmvars>>

\* GraphBuilder.build_from_json called when there is no workflow.json
LoadMissing ==
  /\ ~workflow.exists
  /\ loaded = NotBuilt
  /\ loaded' = Raise(EmptyGraph, "FileNotFoundError")
  /\ UNCHANGED <<workflow, compiled, store, rq, result, ranBefore, turns>>
  /\ UNCHANGED <<dbvars, llmvars>>

\* server.py:32  compiled = build_graph(checkpointer=checkpoint_store)
BuildGraph ==
  /\ loaded # NotBuilt
  /\ compiled = NotBuilt
  /\ compiled' = build_graph(workflow)
  /\ UNCHANGED <<workflow, loaded, store, rq, result, ranBefore, turns>>
  /\ UNCHANGED <<dbvars, llmvars>>

InitBuild ==
  /\ workflow \in GenericFiles \cup CopilotFiles \cup NeitherFiles \cup {NoWorkflowFile}
  /\ compiled = NotBuilt
  /\ loaded = NotBuilt
  /\ store = [t \in Threads |-> [exists |-> FALSE, values |-> NoState]]
  /\ rq = Idle
  /\ result = NoResult
  /\ ranBefore = [t \in Threads |-> {}]
  /\ turns = 0
  /\ NoOrders

NextBuild ==
  \/ LoadGeneric
  \/ LoadCopilot
  \/ LoadNeither
  \/ LoadMissing
  \/ BuildGraph

SpecBuild == InitBuild /\ [][NextBuild]_vars

(***************************************************************************)
(* Calls of the order tools on the order store                              *)
(***************************************************************************)

\* tool calls in a run
MaxCalls == 2

\* seconds that pass in a run
MaxClock == 1

\* a tool call ends: the store is what the call left, the result is recorded
Called(op, order_id, effect) ==
  /\ toolcall.n < MaxCalls
  /\ orders' = effect.orders
  /\ requests' = effect.requests
  /\ toolcall' = [op |-> op, n |-> toolcall.n + 1, order_id |-> order_id,
                  result |-> effect.res]
  /\ UNCHANGED clock
  /\ UNCHANGED <<srvvars, llmvars>>

ProcessRefund(order_id, fails) ==
  Called("process_refund", order_id,
         process_refund(orders, requests, order_id, clock, fails))

LookupOrderStatus(order_id, fails) ==
  Called("lookup_order_status", order_id,
         lookup_order_status(orders, requests, order_id, fails))

\* order_tools.approve_return on a return request id
ApproveReturn(return_request_id, approved) ==
  Called("approve_return", return_request_id[1],
         approve_return_request(orders, requests, return_request_id, approved))

\* a second passes
Tick ==
  /\ clock < MaxClock
  /\ clock' = clock + 1
  /\ UNCHANGED <<orders, requests, toolcall>>
  /\ UNCHANGED <<srvvars, llmvars>>

InitTools ==
  /\ orders \in [StoredIds -> OrderNodes]
  /\ requests = {}
  /\ clock = 0
  /\ toolcall = NoCall
  /\ call_count = 0
  /\ task = NoTask
  /\ workflow = NoWorkflowFile
  /\ compiled = NotBuilt
  /\ loaded = NotBuilt
  /\ store = [t \in Threads |-> [exists |-> FALSE, values |-> NoState]]
  /\ rq = Idle
  /\ result = NoResult
  /\ ranBefore = [t \in Threads |-> {}]
  /\ turns = 0

NextTools ==
  \/ \E o \in OrderIds, f \in {"never", "eligibility", "initiate", "price"} :
       ProcessRefund(o, f)
  \/ \E o \in OrderIds, f \in {"never", "status"} : LookupOrderStatus(o, f)
  \/ \E r \in {q.id : q \in requests} \cup {<<"1001", 0>>}, a \in BOOLEAN :
       ApproveReturn(r, a)
  \/ Tick

SpecTools == InitTools /\ [][NextTools]_vars

(***************************************************************************)
(* chat_endpoint, lines 139-270, on the final state of a run                *)
(***************************************************************************)

\* the final states of a run, by the fields the response is made from
FinalStates ==
  {[NoState EXCEPT !.response = f.response, !.tool_result = f.tool_result,
                   !.parsed_query = f.parsed_query, !.retrieved = f.retrieved,
                   !.intent = f.intent, !.needs_human_review = f.needs_human_review,
                   !.review_message = f.review_message] :
     f \in [response : {None, "", " ", "Model answer"},
            tool_result : {None, "Order"},
            parsed_query : {None, "{}", "null", "query"},
            retrieved : {"empty", "docs"},
            intent : {None, "", "refund"},
            needs_human_review : BOOLEAN,
            review_message : {None, "", " ", "Please review and provide feedback"}]}

\* the run of thread t returned its final state: the request is answered
Respond(t) ==
  /\ rq.phase = "idle"
  /\ result = NoResult
  /\ store[t].exists
  /\ result' = Finished([Idle EXCEPT !.thread = t, !.runs = 1], "ok", store[t].values,
                        <<>>, 0, {})
  /\ UNCHANGED <<workflow, compiled, store, rq, ranBefore, turns, loaded>>
  /\ UNCHANGED <<dbvars, llmvars>>

InitRespond ==
  /\ workflow = NoWorkflowFile
  /\ compiled = build_graph(workflow)
  /\ loaded = NotBuilt
  /\ \E t \in Threads : \E final \in FinalStates :
       store = [u \in Threads |->
                  IF u = t THEN [exists |-> TRUE, values |-> final]
                  ELSE [exists |-> FALSE, values |-> NoState]]
  /\ rq = Idle
  /\ result = NoResult
  /\ ranBefore = [t \in Threads |-> {}]
  /\ turns = 0
  /\ NoOrders

NextRespond == \E t \in Threads : Respond(t)

SpecRespond == InitRespond /\ [][NextRespond]_vars

(***************************************************************************)
(* Properties of a turn                                                     *)
(***************************************************************************)

\* the request was answered: HTTP 200 ("ok") or HTTP 500 ("failed")
Answered == result.outcome \in {"ok", "failed"}

\* the decision tokens that are no approval
RejectTokens == DecisionTokens \ ApproveTokens

\* the turn started from the checkpoint of a pending review and was answered
ResumedTurn == Answered /\ result.resumed

\* C1: when a step sets needs_human_review the turn halts right after that step:
\* no run goes on past such a step, the answered turn ran no step after it, it
\* is reported as awaiting review and the thread has a checkpoint
C1_SuspensionHaltsTurn ==
  /\ rq.haltAt = 0
  /\ (Answered /\ result.haltAt # 0) =>
       /\ Len(result.visited) = result.haltAt
       /\ result.suspended
       /\ store[result.thread].exists

\* C2: a turn resumed with an approval token is answered with the review
\* cleared, after the review step
C2_ApprovalEndsReview ==
  (ResumedTurn /\ result.decision \in ApproveTokens) =>
    /\ result.outcome = "ok"
    /\ ~result.suspended

\* C3: a turn resumed with an input that is neither an approval nor a rejection
\* token is suspended again with the prompt it was resumed from
C3_InconclusiveInputSuspendsAgain ==
  (ResumedTurn /\ result.decision \notin DecisionTokens) =>
    /\ result.outcome = "ok"
    /\ result.suspended
    /\ result.response = result.prompt

\* C4: a resumed turn runs none of the steps that the suspended turn ran before
\* it asked for review
C4_NoStepRunsTwice ==
  /\ (rq.phase = "running" /\ rq.resumed) =>
       \A i \in DOMAIN rq.visited : rq.visited[i] \notin rq.before
  /\ ResumedTurn => \A i \in DOMAIN result.visited : result.visited[i] \notin result.before

\* C5: in A -> B -> [C, D] with the review step B, an approval takes the turn to
\* C (RenderTaskChat) and a rejection takes it to D (RenderTaskEmail)
C5_DecisionSelectsBranch ==
  (/\ workflow \in {BranchOnChannel, BranchOnReviewFlag}
   /\ ResumedTurn
   /\ result.outcome = "ok"
   /\ \E i \in DOMAIN result.visited : result.visited[i] = "HumanReviewTask") =>
      LET last == result.visited[Len(result.visited)]
      IN /\ result.decision \in ApproveTokens => last = "RenderTaskChat"
         /\ result.decision \in RejectTokens => last = "RenderTaskEmail"

\* C6: a turn whose run exceeds the step bound in a cycle is answered as a
\* completed turn, not as a failed one
C6_StepBoundCompletesTurn ==
  (Answered /\ "GraphRecursionError" \in result.errors) => result.outcome = "ok"

\* C7: an exception of a step handler does not escape the turn: the turn is
\* answered with a response for the user
C7_HandlerErrorIsContained ==
  (Answered /\ "HandlerError" \in result.errors) =>
    /\ result.outcome = "ok"
    /\ Truthy(result.response)

\* C8: a routing key that the route table lacks fails the turn (no route table
\* of the builders declares a fallback target)
C8_MissingRouteFailsTurn ==
  (Answered /\ "KeyError" \in result.errors) => result.outcome = "failed"

(***************************************************************************)
(* Properties of the built graph                                            *)
(***************************************************************************)

\* the names of the activities of a copilot file that resolve to a task handler
HandlerActivities(activities) == {n.name : n \in NameToNodeFunc(activities)}

\* the steps for which the file declares an outgoing edge or connection
DeclaredSources(file) ==
  IF file.shape = "generic"
  THEN {file.config.edges[i][1] : i \in DOMAIN file.config.edges}
         \cup {file.config.conditional_edges[i].from : i \in DOMAIN file.config.conditional_edges}
  ELSE {IdToName(file.config.activities, file.config.connections[i][1]) :
          i \in DOMAIN file.config.connections}

\* the file declares two steps of one name (pseudo-nodes and markers apart)
HasDuplicateNode(file) ==
  IF file.shape = "generic"
  THEN \E i, j \in DOMAIN file.config.nodes :
         /\ i < j
         /\ file.config.nodes[i] = file.config.nodes[j]
         /\ file.config.nodes[i] \notin ROUTER_NODES
  ELSE \E i, j \in DOMAIN file.config.activities :
         /\ i < j
         /\ file.config.activities[i].Name = file.config.activities[j].Name
         /\ file.config.activities[i].Name \in HandlerActivities(file.config.activities)

\* the steps a file declares, counted with their repetitions
DeclaredSteps(file) ==
  IF file.shape = "generic"
  THEN {i \in DOMAIN file.config.nodes : file.config.nodes[i] \notin ROUTER_NODES}
  ELSE {i \in DOMAIN file.config.activities :
          file.config.activities[i].Name \in HandlerActivities(file.config.activities)}

\* C9: in a graph built from either shape, every step without a declared
\* outgoing edge has an edge to END
C9_StepWithoutSuccessorEnds ==
  loaded.err = None =>
    \A n \in NodeNames(loaded) :
      n \notin DeclaredSources(workflow) => <<n, END>> \in loaded.edges

InvalidDefinition(file) ==
  IF file.shape = "generic"
  THEN \/ \E i \in DOMAIN file.config.nodes : file.config.nodes[i] \notin DOMAIN node_mapping
       \/ \E i \in DOMAIN file.config.conditional_edges :
            file.config.conditional_edges[i].router_function \notin DOMAIN node_mapping
       \/ DeclaredSteps(file) = {}
       \/ file.config.entry_point \notin {file.config.nodes[i] : i \in DeclaredSteps(file)}
  ELSE \/ \E i \in DOMAIN file.config.activities :
            /\ file.config.activities[i].Type # "Start"
            /\ normalize_node_name(file.config.activities[i].Name) \notin DOMAIN node_mapping
       \/ HandlerActivities(file.config.activities) = {}
       \/ CopilotEntryPoint(file.config) \notin HandlerActivities(file.config.activities)

\* C11: a definition of either shape with an unresolved step name, an unresolved
\* routing function, an undeclared entry point or no step fails to build, and
\* the graph the server runs is not one built from it
C11_InvalidDefinitionIsRejected ==
  (workflow.shape \in {"generic", "copilot"} /\ InvalidDefinition(workflow)) =>
    /\ loaded # NotBuilt => loaded.err # None
    /\ compiled # NotBuilt => compiled = build_hardcoded

DeclaredConnections(file) ==
  IF file.shape = "generic"
  THEN {file.config.edges[i] : i \in DOMAIN file.config.edges}
  ELSE {<<IdToName(file.config.activities, file.config.connections[i][1]),
          IdToName(file.config.activities, file.config.connections[i][2])>> :
          i \in DOMAIN file.config.connections}

\* the router pseudo-nodes a file declares or connects
PseudoNodes(file) ==
  IF file.shape = "generic"
  THEN {n \in ROUTER_NODES :
          \/ \E i \in DOMAIN file.config.nodes : file.config.nodes[i] = n
          \/ \E c \in DeclaredConnections(file) : n \in {c[1], c[2]}}
  ELSE {file.config.activities[i].Name :
          i \in {j \in DOMAIN file.config.activities :
                   /\ file.config.activities[j].Type # "Start"
                   /\ normalize_node_name(file.config.activities[j].Name) \in ROUTER_NODES}}

\* C13: in a graph built from either shape no router pseudo-node is a step, and
\* the step that feeds a pseudo-node carries a conditional edge whose routes
\* lead to exactly the targets of the pseudo-node's outgoing connections
C13_PseudoNodesBecomeConditionalEdges ==
  (workflow.shape \in {"generic", "copilot"} /\ loaded.err = None) =>
    \A p \in PseudoNodes(workflow) :
      LET feeders == {c[1] : c \in {d \in DeclaredConnections(workflow) : d[2] = p}}
          targets == {c[2] : c \in {d \in DeclaredConnections(workflow) : d[1] = p}}
      IN /\ p \notin NodeNames(loaded)
         /\ \A f \in feeders :
              (f \in NodeNames(loaded) /\ targets # {}) =>
                \E b \in loaded.branches :
                  /\ b.from = f
                  /\ {b.routes[k] : k \in DOMAIN b.routes} = targets

C15_ResumeConsumesCheckpoint ==
  (ResumedTurn /\ result.decision \in DecisionTokens) =>
    ~(store[result.thread].exists /\ store[result.thread].values.needs_human_review)

C17_OneStepAtATime ==
  rq.phase = "running" => rq.also = {}

\* C18: within one request the graph is run at most once: a run that fails is
\* not started again
C18_NoAutomaticRetry ==
  /\ rq.runs <= 1
  /\ result.runs <= 1

\* C19: a turn whose checkpoint could not be loaded runs no graph and is
\* answered as failed
C19_UnavailableStoreFailsTurn ==
  /\ rq.phase = "running" => "CheckpointError" \notin rq.errors
  /\ (Answered /\ "CheckpointError" \in result.errors) => result.outcome = "failed"

\* the targets of the direct edges and of the route tables of a graph
GraphTargets(g) ==
  {e[2] : e \in g.edges}
    \cup UNION {{b.routes[k] : k \in DOMAIN b.routes} : b \in g.branches}

\* C20: in every graph a build produces, from either shape or by falling back,
\* the entry point is a step and every target of a direct edge or of a route is
\* a step of the graph or END
C20_TargetsExist ==
  \A g \in {loaded, compiled} :
    g.err = None =>
      /\ \E n \in NodeNames(g) : <<START, n>> \in g.edges
      /\ GraphTargets(g) \subseteq NodeNames(g) \cup {END}

\* a copilot file built into a graph with a route table and a direct edge
C20_Witness ==
  /\ workflow.shape = "copilot"
  /\ loaded.err = None
  /\ compiled = loaded
  /\ loaded.branches # {}
  /\ \E e \in loaded.edges : e[1] # START

(***************************************************************************)
(* Properties of the order tools                                            *)
(***************************************************************************)

\* the step is a call of the tool op
CallOf(op) == toolcall'.op = op /\ toolcall'.n = toolcall.n + 1

\* C21: a call of process_refund creates or changes only return requests that
\* are Pending Approval, sets no return request to Approved and no order to
\* Returned, and when it made a return request and returns, its result is
\* Pending Approval with requiresApproval true
C21_RefundAlwaysNeedsApproval ==
  [][CallOf("process_refund") =>
       /\ \A q \in requests' \ requests :
            q.status = "Pending Approval" /\ q.requiresApproval
       /\ \A o \in StoredIds : orders'[o].status = "Returned" => orders[o] = orders'[o]
       /\ (requests' # requests /\ toolcall'.result.ret # "raised") =>
            /\ toolcall'.result.requiresApproval
            /\ toolcall'.result.status = "Pending Approval"
            /\ \E q \in requests' : q.id = toolcall'.result.refundId]_vars

\* process_refund made a return request for an eligible order
C21_Witness ==
  /\ toolcall.op = "process_refund"
  /\ toolcall.result.status = "Pending Approval"
  /\ \E q \in requests :
       /\ q.id = toolcall.result.refundId
       /\ q.status = "Pending Approval"
       /\ orders[q.orderId].status # "Returned"

\* C22: a call of lookup_order_status that returns gives None when the order id
\* is empty or the store has no such order, and no call of it changes the
\* order store
C22_LookupReadsOnly ==
  [][CallOf("lookup_order_status") =>
       /\ orders' = orders
       /\ requests' = requests
       /\ (/\ toolcall'.result.ret # "raised"
           /\ \/ toolcall'.order_id = ""
              \/ ~orders[toolcall'.order_id].exists) =>
            toolcall'.result = ReturnsNone]_vars

\* lookup_order_status was called for an order the store does not hold
C22_Witness ==
  /\ toolcall.op = "lookup_order_status"
  /\ toolcall.order_id # ""
  /\ ~orders[toolcall.order_id].exists
  /\ toolcall.result = ReturnsNone

\* C23: build_graph raises nothing: its graph is the one built from
\* workflow.json when the file is there and its builder raised nothing, and the
\* hardcoded graph when the file is missing or the build raised
C23_BuildGraphNeverRaises ==
  compiled # NotBuilt =>
    /\ compiled.err = None
    /\ (workflow.exists /\ loaded.err = None) => compiled = loaded
    /\ (~workflow.exists \/ loaded.err # None) => compiled = build_hardcoded

\* build_graph was called without a workflow.json, and with one whose build
\* raised
C23_Witness ==
  /\ compiled = build_hardcoded
  /\ \/ ~workflow.exists /\ loaded.err = "FileNotFoundError"
     \/ workflow.exists /\ loaded.err \notin {None, "not built"}

\* C24: a turn whose checkpoint was read starts from the checkpointed state,
\* with human_input the humanInput of the request or else its message, exactly
\* when the request carries humanInput or its message is one of yes, y,
\* approve, confirm, no, n, reject, cancel, and the thread's checkpoint has
\* needs_human_review; every other turn starts from the initial state of the
\* message (with the humanInput of the request, if any)
C24_ResumeIffDecisionAndPending ==
  [][(rq.phase = "idle" /\ rq'.phase = "running" /\ "CheckpointError" \notin rq'.errors) =>
       LET own == store[rq'.thread]
           message == rq'.fresh.input[1]
           humanInput == rq'.fresh.human_input
           carries == humanInput # None /\ humanInput # ""
           decision ==
             carries \/ LowerStrip(message) \in
               {"yes", "y", "approve", "confirm", "no", "n", "reject", "cancel"}
           pending == own.exists /\ own.values.needs_human_review
       IN /\ rq'.resumed <=> (decision /\ pending)
          /\ rq'.resumed =>
               rq'.s = [own.values EXCEPT
                          !.human_input = IF carries THEN humanInput ELSE message]
          /\ ~rq'.resumed =>
               rq'.s = [initial_state(message, rq'.fresh.channel) EXCEPT
                          !.human_input = humanInput]]_vars

\* a turn resumed from a pending review with the message "no"
C24_Witness ==
  /\ rq.phase = "running"
  /\ rq.step = 0
  /\ rq.resumed
  /\ rq.decision = "no"
  /\ rq.s.human_input = "no"
  /\ rq.s.review_message # None

\* C25: a turn that ends with a review pending and a review message set is
\* answered with exactly that review message, and render_chat leaves the
\* response of a state with a pending review as it is
C25_PendingReviewAnsweredWithPrompt ==
  [][/\ (result'.outcome = "ok" /\ result'.suspended /\ Truthy(result'.review_message)) =>
          result'.response = result'.review_message
     /\ (/\ rq.phase = "running"
         /\ rq.also = {}
         /\ NodeFn(compiled, rq.cur) = "RenderTaskChat"
         /\ rq.s.needs_human_review
         /\ Truthy(rq.s.response)
         /\ result'.outcome = "ok") =>
          store'[rq.thread].values = rq.s]_vars

\* a turn over the email channel ended with a review pending after its render
\* step, and one over the chat channel after render_chat
C25_Witness ==
  /\ result.outcome = "ok"
  /\ result.suspended
  /\ result.response = result.review_message
  /\ result.visited # <<>>
  /\ result.visited[Len(result.visited)] \in {"RenderTaskChat", "RenderTaskEmail"}
  /\ store[result.thread].values.needs_human_review

\* C26: a turn that starts afresh and whose ToolTask got a refund result
\* flagged needsHumanReview ends with needs_human_review set and the approval
\* prompt as its response, whatever graph build_graph returned
C26_FlaggedRefundPausesTurn ==
  (/\ rq.phase = "idle"
   /\ result.outcome = "ok"
   /\ ~result.resumed
   /\ result.runs = 1
   /\ \E i \in DOMAIN result.visited : result.visited[i] = "ToolTask"
   /\ store[result.thread].values.tool_result = "RefundPending") =>
     /\ result.suspended
     /\ Truthy(result.review_message)
     /\ result.response = result.review_message

\* C27: in the hardcoded graph every answered turn completed after one run of
\* LLMTask, ToolTask, AgentTask, RetrieverTask and then the one render step of
\* its channel, each step once
C27_HardcodedTurnRunsFiveSteps ==
  (compiled = build_hardcoded /\ Answered) =>
    /\ result.outcome = "ok"
    /\ result.runs = 1
    /\ result.visited =
         <<"LLMTask", "ToolTask", "AgentTask", "RetrieverTask",
           IF store[result.thread].values.channel = "email"
           THEN "RenderTaskEmail" ELSE "RenderTaskChat">>

\* C28: in a graph built from the generic shape no step carries both a
\* conditional edge and a direct outgoing edge, also when the conditional edge
\* was declared on a router pseudo-node and moved to the step that feeds it
C28_NoDirectEdgeBesideConditional ==
  (workflow.shape = "generic" /\ loaded.err = None) =>
    \A b \in loaded.branches : \A e \in loaded.edges : e[1] # b.from

\* C29: in a graph built from the copilot shape only a step without any
\* outgoing connection has an edge to END: a step whose connection feeds a
\* router pseudo-activity has none
C29_EndEdgeOnlyWithoutConnections ==
  (workflow.shape = "copilot" /\ loaded.err = None) =>
    \A n \in NodeNames(loaded) :
      <<n, END>> \in loaded.edges =>
        \A c \in DeclaredConnections(workflow) : c[1] # n

\* C30: every turn that completes is answered with a response text that is
\* not empty, whatever response, tool result, parsed query, retrieved documents
\* and intent its final state holds
C30_ResponseIsNeverEmpty ==
  result.outcome = "ok" => ~Blank(result.response)

\* a turn whose final state holds nothing to answer with was answered
C30_Witness ==
  /\ result.outcome = "ok"
  /\ LET final == store[result.thread].values
     IN /\ Blank(final.response)
        /\ final.needs_human_review
        /\ final.review_message = " "
        /\ final.tool_result = None
        /\ final.parsed_query = "null"
        /\ final.retrieved = "empty"
        /\ ~Truthy(final.intent)
  /\ result.response = "I've processed your request. How can I help you further?"

(***************************************************************************)
(* Handler calls on their own: llm_task on a message and a reply of the      *)
(* model, render_chat on a state of the graph                                *)
(***************************************************************************)

\* model calls in a run
MaxModelCalls == 2

\* the messages llm_task is called on
TaskMessages ==
  {"refund order 1001", "price of order 1001", "HOW MUCH is order 1001",
   "prices for order 1001", "how much is shipping", "maybe"}

\* the states render_chat is called on: the message classified, the tool asked,
\* and either no review pending or the approval prompt of a pending review as
\* the response; a review is pending on a message that was once classified as
\* a refund, whatever the model calls it in the turn that follows
RenderStates ==
  {[initial_state(f.message, "chat") EXCEPT
      !.intent = f.intent,
      !.entities = [orderId |-> extract_order_id(<<f.message>>)],
      !.tool_result = f.tool_result,
      !.parsed_query = f.parsed_query,
      !.needs_human_review = f.pending,
      !.review_message = IF f.pending THEN ReviewPrompt("1001", None) ELSE None,
      !.response = IF f.pending THEN ReviewPrompt("1001", None) ELSE f.response] :
     f \in {g \in [message : {"refund order 1001", "price of order 1001", "maybe"},
                    intent : {"order_price", "order_status", "refund", "chit_chat"},
                    tool_result : {None, "Order", "OrderStatusOnly"},
                    parsed_query : {None, "query"},
                    pending : BOOLEAN,
                    response : {None, "Model answer"}] :
              g.pending => g.message = "refund order 1001"}}

\* llm_task runs on the state of a new message and gets a reply of the model
LLMTask(state, reply) ==
  /\ call_count < MaxModelCalls
  /\ LET r == llm_task_reply(state, reply)
     IN /\ task' = [fn |-> "LLMTask", state |-> state, reply |-> reply, r |-> r]
        /\ call_count' = call_count + r.calls
  /\ UNCHANGED <<srvvars, dbvars>>

\* render_chat runs on a state of the graph
RenderTaskChat(state) ==
  /\ call_count < MaxModelCalls
  /\ \E r \in render_chat(state) :
       /\ task' = [fn |-> "RenderTaskChat", state |-> state,
                   reply |-> Reply(None, None, None), r |-> r]
       /\ call_count' = call_count + r.calls
  /\ UNCHANGED <<srvvars, dbvars>>

InitTasks ==
  /\ workflow = NoWorkflowFile
  /\ compiled = NotBuilt
  /\ loaded = NotBuilt
  /\ store = [t \in Threads |-> [exists |-> FALSE, values |-> NoState]]
  /\ rq = Idle
  /\ result = NoResult
  /\ ranBefore = [t \in Threads |-> {}]
  /\ turns = 0
  /\ NoOrders

NextTasks ==
  \/ \E m \in TaskMessages, reply \in ModelReplies :
       LLMTask(initial_state(m, "chat"), reply)
  \/ \E state \in RenderStates : RenderTaskChat(state)

SpecTasks == InitTasks /\ [][NextTasks]_vars

\* C31: when the input holds an order id and a price keyword, llm_task ends with
\* intent order_price and with the extracted id as entities.orderId, whatever
\* the model or the heuristic fallback classified; it ends for every reply that
\* is a classification, a failure of the model or text that does not parse
C31_PriceKeywordForcesOrderPrice ==
  (/\ task.fn = "LLMTask"
   /\ extract_order_id(task.state.input) # None
   /\ HasPriceKeyword(Lower(task.state.input)))
  => /\ task.reply.kind \in {"object", "error", "unparsable"} => ~task.r.raised
     /\ ~task.r.raised =>
          /\ task.r.s.intent = "order_price"
          /\ task.r.s.entities = [orderId |-> extract_order_id(task.state.input)]

\* the model classified a price question in capitals as a refund of another
\* order, and llm_task ended with order_price and the id of the message
C31_Witness ==
  /\ task.fn = "LLMTask"
  /\ task.state.input = <<"HOW MUCH is order 1001">>
  /\ task.reply = Reply("object", "refund", "9999")
  /\ ~task.r.raised
  /\ task.r.s.intent = "order_price"
  /\ task.r.s.entities.orderId = "1001"

====
